---- MODULE Spec2Model ----
(***************************************************************************)
(* A model of the chat server of chatproto/src/solutions/erasmus.rs: the   *)
(* clients map, the routing table and the handlers of the MessageServer    *)
(* trait, each handler taken as one atomic step (the sequential API the    *)
(* tests of chatproto/src/testing.rs drive).                               *)
(***************************************************************************)
EXTENDS Integers, Sequences, FiniteSets, TLC

\* ------------------------------------------------------------------ bounds
NumClients == 2      \* client ids are 1..NumClients
NumServers == 2      \* peer server ids are 1..NumServers
MaxSeq == 2          \* seqids submitted are 0..MaxSeq
MaxProof == 1        \* work proofs submitted are 0..MaxProof
MaxDest == 2         \* longest destination list of an MText
MaxDsts == 1         \* longest fqm.dsts of a server Message
MaxRoute == 2        \* longest announced route
MaxOps == 4          \* handler calls in one run of SeqSpec
MailOps == 3         \* handler calls in one run of MailSpec
FifoOps == 5         \* handler calls in one run of FifoSpec
FedOps == 3          \* handler calls in one run of FedSpec
NumHops == 3         \* the servers on the routes of RouteSpec are 1..NumHops
MaxHops == 3         \* longest route announced in RouteSpec
RouteOps == 3        \* handler calls in one run of RouteSpec
UserOps == 3         \* handler calls in one run of UserSpec
NumTasks == 2        \* tasks calling handlers at the same time in TaskSpec
MaxString == 300     \* bytes of the longest string encoded in CodecSpec

\* ------------------------------------------------------- program constants
\* core::MAILBOX_SIZE (imported at erasmus.rs:7), scaled down
MAILBOX_SIZE == 2
\* core::WORKPROOF_STRENGTH (imported at erasmus.rs:7), scaled down
WORKPROOF_STRENGTH == 1

ClientIds == 1..NumClients
Peers == 1..NumServers
SelfId == 0
Names == {"n"}
SeqIds == 0..MaxSeq
WorkProofs == 0..MaxProof

\* Option<T>: None is the empty tuple, Some(v) the one-element tuple
None == <<>>
Some(v) == <<v>>

\* sequences over S of length lo..hi
SeqsOf(S, lo, hi) == UNION {[1..n -> S] : n \in lo..hi}

Range(s) == {s[i] : i \in 1..Len(s)}

VARIABLES
  clients,    \* Server.clients : HashMap<ClientId, ClientInfo>
  routes,     \* Server.routes  : HashMap<ServerId, Vec<ServerId>>
  last,       \* the last handler call: its name, arguments and reply
  before,     \* history: clients and routes as the last call found them
  admitted,   \* history: per client, the seqids admitted so far, in order
  polled,     \* history: per client, the <<src, content>> its polls
              \* returned so far, in order
  nops,       \* number of handler calls so far
  announced,  \* history: the routes, not empty, of the Announces handled
  registered, \* history: per id returned by register_local_client, the
              \* name of its latest registration
  tasks,      \* per task, the handler call it runs and how far it has come
  guards,     \* per RwLock of the Server, the guards held: <<task, mode>>
  wire,       \* the bytes of the datagram last written or received
  sent        \* history: the value whose encoding is on the wire, if any

vars == <<clients, routes, last, before, admitted, polled, nops, announced,
          registered, tasks, guards, wire, sent>>

\* ------------------------------------------------------------- data model
\* Stuff::Local { name, last_sequence }
Local(name, seq) == [kind |-> "Local", name |-> name, last_sequence |-> seq]
\* Stuff::Remote { server }
Remote(server) == [kind |-> "Remote", server |-> server]
\* ClientInfo { stuff, mailbox }
ClientInfo(stuff, mailbox) == [stuff |-> stuff, mailbox |-> mailbox]
\* MessageInfo { src, content }
MessageInfo(src, content) == [src |-> src, content |-> content]
\* FullyQualifiedMessage { src, srcsrv, dsts, content }
FullyQualifiedMessage(src, srcsrv, dsts, content) ==
  [src |-> src, srcsrv |-> srcsrv, dsts |-> dsts, content |-> content]
\* Outgoing { nexthop, message }
Outgoing(nexthop, message) == [nexthop |-> nexthop, message |-> message]

\* HashMap::insert
Insert(map, k, v) == [x \in DOMAIN map \cup {k} |-> IF x = k THEN v ELSE map[x]]

IsLocal(cl, c) == c \in DOMAIN cl /\ cl[c].stuff.kind = "Local"
IsRemote(cl, c) == c \in DOMAIN cl /\ cl[c].stuff.kind = "Remote"

\* -------------------------------------------------------------- workproof
\* The hash of (nonce, workproof): a fixed function onto 2 bits.
Hash(nonce, workproof) == (2 * (workproof + 1) * (2 * nonce + 1)) % 4

\* workproof::verify_workproof: the hash has at least `strength` leading
\* zero bits (of 2).
verify_workproof(nonce, workproof, strength) ==
  Hash(nonce, workproof) < 2 ^ (2 - strength)

\* (&sequence.src).into()
Nonce(src) == src

\* ---------------------------------------------------------------- replies
\* Result<A, ClientError> of handle_sequenced_message
Ok == <<"Ok">>
Err(e) == <<"Err", e>>
\* ClientReply
Delivered == <<"Delivered">>
Delayed == <<"Delayed">>
Error(e) == <<"Error", e>>
BoxFull(dest) == <<"BoxFull", dest>>
Transfer(nexthop, msg) == <<"Transfer", nexthop, msg>>
\* ClientPollReply
PollMessage(src, content) == <<"Message", src, content>>
PollNothing == <<"Nothing">>
DelayedError(e) == <<"DelayedError", e>>
UnknownRecipient(client) == <<"UnknownRecipient", client>>
\* ServerReply
ReplyOutgoing(msgs) == <<"Outgoing", msgs>>
EmptyRoute == <<"EmptyRoute">>
\* a failed expect(): the handler panics
Panic == <<"panic">>

\* --------------------------------------------------------------- handlers
\* Uuid::new_v4(): a random 128-bit id, taken as never equal to an id in use
NewUuids(cl) == ClientIds \ DOMAIN cl

\* Uuid::new_v4(): a random 128-bit id, which may be one in use
Uuids == ClientIds

\* register_local_client: the clients map after inserting the minted id
register_local_client(cl, user_id, name) ==
  Insert(cl, user_id, ClientInfo(Local(name, 0), <<>>))

\* a mutant of sequence_replayed: a seqid equal to the last one passes
sequence_replayed_strict(last_sequence, seqid) == last_sequence > seqid

\* the seqid test of handle_sequenced_message: *last_sequence >= sequence.seqid
sequence_replayed(last_sequence, seqid) == last_sequence >= seqid

\* a mutant of handle_sequenced_message: the seqid is tested before the work
\* proof
handle_sequenced_message_seqid_first(cl, sequence) ==
  IF sequence.src \in DOMAIN cl
  THEN IF cl[sequence.src].stuff.kind = "Local"
       THEN IF sequence_replayed(cl[sequence.src].stuff.last_sequence, sequence.seqid)
            THEN [clients |-> cl, reply |-> Err("SequenceError")]
            ELSE IF ~verify_workproof(Nonce(sequence.src), sequence.workproof,
                                      WORKPROOF_STRENGTH)
            THEN [clients |-> cl, reply |-> Err("WorkProofError")]
            ELSE [clients |->
                    [cl EXCEPT ![sequence.src].stuff.last_sequence = sequence.seqid],
                  reply |-> Ok]
       ELSE [clients |-> cl, reply |-> Err("UnknownClient")]
  ELSE [clients |-> cl, reply |-> Err("UnknownClient")]

\* a mutant of handle_sequenced_message: a src without record is admitted
handle_sequenced_message_unknown_ok(cl, sequence) ==
  IF ~verify_workproof(Nonce(sequence.src), sequence.workproof, WORKPROOF_STRENGTH)
  THEN [clients |-> cl, reply |-> Err("WorkProofError")]
  ELSE IF sequence.src \in DOMAIN cl
  THEN IF cl[sequence.src].stuff.kind = "Local"
       THEN IF sequence_replayed(cl[sequence.src].stuff.last_sequence, sequence.seqid)
            THEN [clients |-> cl, reply |-> Err("SequenceError")]
            ELSE [clients |->
                    [cl EXCEPT ![sequence.src].stuff.last_sequence = sequence.seqid],
                  reply |-> Ok]
       ELSE [clients |-> cl, reply |-> Err("UnknownClient")]
  ELSE [clients |-> cl, reply |-> Ok]

\* handle_sequenced_message: the clients map and the result
handle_sequenced_message(cl, sequence) ==
  IF ~verify_workproof(Nonce(sequence.src), sequence.workproof, WORKPROOF_STRENGTH)
  THEN [clients |-> cl, reply |-> Err("WorkProofError")]
  ELSE IF sequence.src \in DOMAIN cl
  THEN IF cl[sequence.src].stuff.kind = "Local"
       THEN IF sequence_replayed(cl[sequence.src].stuff.last_sequence, sequence.seqid)
            THEN [clients |-> cl, reply |-> Err("SequenceError")]
            ELSE [clients |->
                    [cl EXCEPT ![sequence.src].stuff.last_sequence = sequence.seqid],
                  reply |-> Ok]
       ELSE [clients |-> cl, reply |-> Err("UnknownClient")]
  ELSE [clients |-> cl, reply |-> Err("UnknownClient")]

\* a mutant of box_full: one entry more than MAILBOX_SIZE is let in
box_full_late(mailbox) == Len(mailbox) > MAILBOX_SIZE

\* the capacity test of handle_single_message
box_full(mailbox) == Len(mailbox) >= MAILBOX_SIZE

\* a mutant of unknown_recipient: the record is made, the message is not kept
unknown_recipient_empty(src, message) == ClientInfo(Remote(None), <<>>)

\* the record handle_single_message inserts for a destination it has no
\* record of
unknown_recipient(src, message) ==
  ClientInfo(Remote(None), <<MessageInfo(src, message)>>)

\* a mutant of transfer_nexthop: the first server of the stored route
transfer_nexthop_first(route) == route[1]

\* the nexthop of a Transfer: myroutes.get(&destination_server).last()
transfer_nexthop(route) == route[Len(route)]

\* handle_single_message: the clients map and the reply for one destination
handle_single_message(cl, rt, src, dest, message) ==
  IF dest \in DOMAIN cl
  THEN IF cl[dest].stuff.kind = "Local" \/ cl[dest].stuff = Remote(None)
       THEN IF box_full(cl[dest].mailbox)
            THEN [clients |-> cl, reply |-> Error(BoxFull(dest))]
            ELSE [clients |->
                    [cl EXCEPT ![dest].mailbox = Append(@, MessageInfo(src, message))],
                  reply |-> Delivered]
       ELSE LET destination_server == cl[dest].stuff.server[1] IN
            IF destination_server \notin DOMAIN rt \/ rt[destination_server] = <<>>
            THEN [clients |-> cl, reply |-> Panic]
            ELSE LET route == rt[destination_server] IN
                 [clients |-> cl,
                  reply |-> Transfer(transfer_nexthop(route),
                              FullyQualifiedMessage(src, SelfId,
                                <<<<dest, route[1]>>>>, message))]
  ELSE [clients |-> Insert(cl, dest, unknown_recipient(src, message)),
        reply |-> Delayed]

\* a mutant of handle_recipients: the destinations are served last first
RECURSIVE handle_recipients_reversed(_, _, _, _, _)
handle_recipients_reversed(cl, rt, src, dest, content) ==
  IF dest = <<>>
  THEN [clients |-> cl, replies |-> <<>>]
  ELSE LET rest == handle_recipients_reversed(cl, rt, src, Tail(dest), content)
           one == handle_single_message(rest.clients, rt, src, Head(dest), content)
       IN [clients |-> one.clients, replies |-> <<one.reply>> \o rest.replies]

\* the loop of handle_client_message over the destinations, in list order
RECURSIVE handle_recipients(_, _, _, _, _)
handle_recipients(cl, rt, src, dest, content) ==
  IF dest = <<>>
  THEN [clients |-> cl, replies |-> <<>>]
  ELSE LET one == handle_single_message(cl, rt, src, Head(dest), content)
           rest == handle_recipients(one.clients, rt, src, Tail(dest), content)
       IN [clients |-> rest.clients, replies |-> <<one.reply>> \o rest.replies]

\* ClientMessage::Text { dest, content } and ::MText { dest, content }
Text(dest, content) == [type |-> "Text", dest |-> <<dest>>, content |-> content]
MText(dest, content) == [type |-> "MText", dest |-> dest, content |-> content]

\* handle_client_message: the clients map and the vector of replies
handle_client_message(cl, rt, src, msg) ==
  handle_recipients(cl, rt, src, msg.dest, msg.content)

\* list_users: the names of the Local records, by id
list_users(cl) ==
  [c \in {d \in DOMAIN cl : cl[d].stuff.kind = "Local"} |-> cl[c].stuff.name]

\* a mutant of pop_front: the newest entry is taken
pop_back(mailbox) ==
  [entry |-> mailbox[Len(mailbox)], rest |-> SubSeq(mailbox, 1, Len(mailbox) - 1)]

\* a mutant of pop_front: the entry is read and left in the mailbox
peek_front(mailbox) == [entry |-> Head(mailbox), rest |-> mailbox]

\* VecDeque::pop_front on a mailbox that is not empty
pop_front(mailbox) == [entry |-> Head(mailbox), rest |-> Tail(mailbox)]

\* client_poll: the clients map and the reply
client_poll(cl, client) ==
  IF client \in DOMAIN cl
  THEN IF cl[client].mailbox # <<>>
       THEN LET message_info == pop_front(cl[client].mailbox) IN
            [clients |-> [cl EXCEPT ![client].mailbox = message_info.rest],
             reply |-> PollMessage(message_info.entry.src, message_info.entry.content)]
       ELSE [clients |-> cl, reply |-> PollNothing]
  ELSE [clients |-> cl, reply |-> DelayedError(UnknownRecipient(client))]

\* the drain loop of an Announce for one occupied entry: the Outgoing list of
\* its buffered messages, front first
RECURSIVE drain(_, _, _, _)
drain(mailbox, client_id, remote_server, next_hop) ==
  IF mailbox = <<>>
  THEN <<>>
  ELSE <<Outgoing(remote_server,
           FullyQualifiedMessage(Head(mailbox).src, SelfId,
             <<<<client_id, next_hop>>>>, Head(mailbox).content))>>
       \o drain(Tail(mailbox), client_id, remote_server, next_hop)

\* a mutant of announce_clients: the buffered messages are sent and left in
\* the mailbox
RECURSIVE announce_clients_kept(_, _, _, _)
announce_clients_kept(cl, order, remote_server, next_hop) ==
  IF order = <<>>
  THEN [clients |-> cl, outgoing |-> <<>>]
  ELSE LET client_id == Head(order)
           stuff == Remote(Some(next_hop))
           mailbox == IF client_id \in DOMAIN cl THEN cl[client_id].mailbox ELSE <<>>
           out == drain(mailbox, client_id, remote_server, next_hop)
           rest == announce_clients_kept(
                     Insert(cl, client_id, ClientInfo(stuff, mailbox)),
                     Tail(order), remote_server, next_hop)
       IN [clients |-> rest.clients, outgoing |-> out \o rest.outgoing]

\* the loop of an Announce over its clients map, `order` being the order in
\* which the map is iterated (the names of the map are not read)
RECURSIVE announce_clients(_, _, _, _)
announce_clients(cl, order, remote_server, next_hop) ==
  IF order = <<>>
  THEN [clients |-> cl, outgoing |-> <<>>]
  ELSE LET client_id == Head(order)
           stuff == Remote(Some(next_hop))
           out == IF client_id \in DOMAIN cl
                  THEN drain(cl[client_id].mailbox, client_id, remote_server, next_hop)
                  ELSE <<>>
           rest == announce_clients(Insert(cl, client_id, ClientInfo(stuff, <<>>)),
                                    Tail(order), remote_server, next_hop)
       IN [clients |-> rest.clients, outgoing |-> out \o rest.outgoing]

\* a mutant of handle_announce: the clients are recorded and the route is
\* not stored
handle_announce_unrouted(cl, rt, route, order) ==
  IF route = <<>>
  THEN [clients |-> cl, routes |-> rt, reply |-> EmptyRoute]
  ELSE LET done == announce_clients(cl, order, route[Len(route)], route[1])
       IN [clients |-> done.clients, routes |-> rt,
           reply |-> ReplyOutgoing(done.outgoing)]

\* a mutant of handle_announce: an empty route still records the clients
handle_announce_unguarded(cl, rt, route, order) ==
  IF route = <<>>
  THEN [clients |-> announce_clients(cl, order, SelfId, SelfId).clients,
        routes |-> rt, reply |-> EmptyRoute]
  ELSE LET done == announce_clients(cl, order, route[Len(route)], route[1])
       IN [clients |-> done.clients,
           routes |-> Insert(rt, route[1], route),
           reply |-> ReplyOutgoing(done.outgoing)]

\* handle_server_message, ServerMessage::Announce { route, clients }
handle_announce(cl, rt, route, order) ==
  IF route = <<>>
  THEN [clients |-> cl, routes |-> rt, reply |-> EmptyRoute]
  ELSE LET remote_server == route[Len(route)]
           next_hop == route[1]
           done == announce_clients(cl, order, remote_server, next_hop)
       IN [clients |-> done.clients,
           routes |-> Insert(rt, next_hop, route),
           reply |-> ReplyOutgoing(done.outgoing)]

Reverse(s) == [i \in 1..Len(s) |-> s[Len(s) + 1 - i]]

\* route_vec.iter().position(|&id| id == destination)
Position(route_vec, destination) ==
  CHOOSE i \in 1..Len(route_vec) :
    /\ route_vec[i] = destination
    /\ \A j \in 1..(i - 1) : route_vec[j] # destination

\* the current_route values route_to builds, one per stored route that holds
\* the destination
RouteCandidates(rt, destination) ==
  {<<SelfId>> \o Reverse(SubSeq(rt[k], Position(rt[k], destination), Len(rt[k]))) :
     k \in {h \in DOMAIN rt : destination \in Range(rt[h])}}

\* route_to: the results it can return; the first candidate of least length
\* in the iteration order of the map wins, and that order is not fixed
route_to(rt, destination) ==
  IF RouteCandidates(rt, destination) = {}
  THEN {None}
  ELSE {Some(c) : c \in {r \in RouteCandidates(rt, destination) :
                           \A o \in RouteCandidates(rt, destination) : Len(r) <= Len(o)}}

\* the loop of handle_server_message(Message) over fqm.dsts
RECURSIVE message_dsts(_, _, _, _)
message_dsts(cl, rt, fqm, dsts) ==
  IF dsts = <<>>
  THEN [clients |-> cl, outgoing |-> <<>>]
  ELSE LET dest_client == Head(dsts)[1]
           dest_server == Head(dsts)[2]
           cl1 == IF IsLocal(cl, dest_client)
                  THEN [cl EXCEPT ![dest_client].mailbox =
                          Append(@, MessageInfo(fqm.src, fqm.content))]
                  ELSE cl
           out == IF /\ IsRemote(cl, dest_client)
                     /\ cl[dest_client].stuff.server # None
                     /\ route_to(rt, dest_server) # {None}
                  THEN <<Outgoing(cl[dest_client].stuff.server[1],
                           FullyQualifiedMessage(fqm.src, SelfId,
                             <<<<dest_client, dest_server>>>>, fqm.content))>>
                  ELSE <<>>
           rest == message_dsts(cl1, rt, fqm, Tail(dsts))
       IN [clients |-> rest.clients, outgoing |-> out \o rest.outgoing]

\* handle_server_message, ServerMessage::Message(fully_qualified_message)
handle_message(cl, rt, fqm) ==
  LET done == message_dsts(cl, rt, fqm, fqm.dsts)
  IN [clients |-> done.clients, reply |-> ReplyOutgoing(done.outgoing)]

\* ------------------------------------------------------------------ inputs
Sequences == [seqid : SeqIds, src : ClientIds, workproof : WorkProofs]
DestLists == SeqsOf(ClientIds, 0, MaxDest)
Routes == SeqsOf(Peers, 0, MaxRoute)
\* the iteration orders of the clients maps an Announce can carry
ClientOrders ==
  {o \in SeqsOf(ClientIds, 0, NumClients) :
     \A i, j \in 1..Len(o) : i # j => o[i] # o[j]}
\* the text of a client message: as in testing.rs, where message i carries
\* the text i, the message sent in handler call n carries the text n; the
\* messages of peer servers carry the text 0
ClientText == nops + 1
FullyQualifiedMessages ==
  [src : ClientIds, srcsrv : {1},
   dsts : SeqsOf(ClientIds \X (Peers \cup {SelfId}), 0, MaxDsts),
   content : {0}]

\* the tasks that call the handlers of one Server at the same time
Tasks == 1..NumTasks
\* the RwLocks: the two of the Server, and the one main.rs wraps the Server in
Locks == {"clients", "routes", "srv"}
\* a task: the handler it runs, where it stands ("await" before a guard,
\* "run" and "store" under its guards, "done"), the arguments, the replies
\* so far and the guards it has still to await, in order
Task(op, pc, arg, out, need) == <<op, pc, arg, out, need>>
Idle == Task("idle", "idle", <<>>, <<>>, <<>>)

\* a handler call: its name, its arguments and its reply, the name first so
\* that two calls of different handlers differ in their first element
Call(op, arg, reply) == <<op, arg, reply>>

\* ------------------------------------------------------------------ actions
\* A server after construction and the registration of some clients.
Init ==
  /\ \E ids \in SUBSET ClientIds :
       clients = [c \in ids |-> ClientInfo(Local("n", 0), <<>>)]
  /\ routes = <<>>
  /\ last = Call("new", <<>>, <<>>)
  /\ before = [clients |-> clients, routes |-> <<>>]
  /\ admitted = [c \in ClientIds |-> <<>>]
  /\ polled = [c \in ClientIds |-> <<>>]
  /\ nops = 0
  /\ announced = {}
  /\ registered = [c \in DOMAIN clients |-> "n"]
  /\ tasks = [t \in Tasks |-> Idle]
  /\ guards = [lock \in Locks |-> {}]
  /\ wire = <<>>
  /\ sent = None

\* one more handler call, of at most `max`
Tick(max) ==
  /\ nops < max
  /\ nops' = nops + 1
  /\ before' = [clients |-> clients, routes |-> routes]
  /\ UNCHANGED <<tasks, guards, wire, sent>>

\* register_local_client with a name of `names`; the id minted is one not in
\* use when `fresh`, and any id otherwise
RegisterAs(max, names, fresh) ==
  /\ Tick(max)
  /\ \E user_id \in IF fresh THEN NewUuids(clients) ELSE Uuids, name \in names :
       /\ clients' = register_local_client(clients, user_id, name)
       /\ last' = Call("register_local_client", <<name>>, <<user_id>>)
       /\ registered' = Insert(registered, user_id, name)
  /\ UNCHANGED <<routes, admitted, polled, announced>>

Register(max) == RegisterAs(max, Names, TRUE)

ListUsers(max) ==
  /\ Tick(max)
  /\ last' = Call("list_users", <<>>, list_users(clients))
  /\ UNCHANGED <<clients, routes, admitted, polled, announced, registered>>

Sequenced(max, inputs) ==
  /\ Tick(max)
  /\ \E sequence \in inputs :
       LET r == handle_sequenced_message(clients, sequence) IN
       /\ clients' = r.clients
       /\ last' = Call("handle_sequenced_message", <<sequence>>, r.reply)
       /\ admitted' = IF r.reply = Ok
                      THEN [admitted EXCEPT ![sequence.src] = Append(@, sequence.seqid)]
                      ELSE admitted
  /\ UNCHANGED <<routes, polled, announced, registered>>

ClientMessage(src, msg) ==
  LET r == handle_client_message(clients, routes, src, msg) IN
  /\ clients' = r.clients
  /\ last' = Call("handle_client_message", <<src, msg>>, r.replies)
  /\ UNCHANGED <<routes, admitted, polled, announced, registered>>

SendText(max, srcs, dests) ==
  /\ Tick(max)
  /\ \E src \in srcs, dest \in dests : ClientMessage(src, Text(dest, ClientText))

SendMText(max, srcs, lists) ==
  /\ Tick(max)
  /\ \E src \in srcs, dest \in lists : ClientMessage(src, MText(dest, ClientText))

Poll(max, ids) ==
  /\ Tick(max)
  /\ \E client \in ids :
       LET r == client_poll(clients, client) IN
       /\ clients' = r.clients
       /\ last' = Call("client_poll", <<client>>, r.reply)
       /\ polled' = IF r.reply[1] = "Message"
                    THEN [polled EXCEPT ![client] = Append(@, <<r.reply[2], r.reply[3]>>)]
                    ELSE polled
  /\ UNCHANGED <<routes, admitted, announced, registered>>

Announce(max, routeset, orders) ==
  /\ Tick(max)
  /\ \E route \in routeset, order \in orders :
       LET r == handle_announce(clients, routes, route, order) IN
       /\ clients' = r.clients
       /\ routes' = r.routes
       /\ last' = Call("announce", <<route, order>>, r.reply)
       /\ announced' = IF route = <<>> THEN announced ELSE announced \cup {route}
  /\ UNCHANGED <<admitted, polled, registered>>

RouteTo(max, destinations) ==
  /\ Tick(max)
  /\ \E destination \in destinations :
       \E shortest_route \in route_to(routes, destination) :
         last' = Call("route_to", <<destination>>, shortest_route)
  /\ UNCHANGED <<clients, routes, admitted, polled, announced, registered>>

ServerMessage(max, fqms) ==
  /\ Tick(max)
  /\ \E fqm \in fqms :
       LET r == handle_message(clients, routes, fqm) IN
       /\ clients' = r.clients
       /\ last' = Call("message", <<fqm>>, r.reply)
  /\ UNCHANGED <<routes, admitted, polled, announced, registered>>

\* ---------------------------------------------------------- specifications
\* Admission: every handler, with the announces and the messages that do not
\* bear on admission kept few.
SeqNext ==
  \/ Register(MaxOps)
  \/ Sequenced(MaxOps, Sequences)
  \/ SendText(MaxOps, {1}, ClientIds)
  \/ Poll(MaxOps, ClientIds)
  \/ Announce(MaxOps, {<<1>>}, ClientOrders)
  \/ ServerMessage(MaxOps, {f \in FullyQualifiedMessages : Len(f.dsts) = 1 /\ f.src = 1})

SeqSpec == Init /\ [][SeqNext]_vars

\* Mailboxes: every client message and poll, with the announces and the
\* messages of peer servers kept few.
MailNext ==
  \/ Register(MailOps)
  \/ SendText(MailOps, ClientIds, ClientIds)
  \/ SendMText(MailOps, ClientIds, DestLists)
  \/ Poll(MailOps, ClientIds)
  \/ Announce(MailOps, {<<1>>}, ClientOrders)
  \/ ServerMessage(MailOps, FullyQualifiedMessages)

MailSpec == Init /\ [][MailNext]_vars

\* Delivery order: the messages and polls of the clients of this server.
FifoNext ==
  \/ Register(FifoOps)
  \/ SendText(FifoOps, ClientIds, ClientIds)
  \/ SendMText(FifoOps, {1}, {d \in DestLists : Len(d) = MaxDest})
  \/ Poll(FifoOps, ClientIds)
  \/ ServerMessage(FifoOps, {f \in FullyQualifiedMessages :
                               Len(f.dsts) = 1 /\ f.dsts[1][2] = SelfId})

FifoSpec == Init /\ [][FifoNext]_vars

\* Federation: the announces of every route and the messages they redirect.
FedNext ==
  \/ Register(FedOps)
  \/ SendText(FedOps, ClientIds, ClientIds)
  \/ Announce(FedOps, Routes, ClientOrders)
  \/ ServerMessage(FedOps, FullyQualifiedMessages)

FedSpec == Init /\ [][FedNext]_vars

\* Routing: announces of longer routes between more servers, and route_to.
Hops == 1..NumHops
\* the routes on which no server occurs twice
LongRoutes ==
  {r \in SeqsOf(Hops, 1, MaxHops) :
     \A i, j \in 1..Len(r) : i # j => r[i] # r[j]}

RouteNext ==
  \/ Announce(RouteOps, LongRoutes, {<<>>})
  \/ RouteTo(RouteOps, Hops)

RouteSpec == Init /\ [][RouteNext]_vars

\* Users: registrations under two names with ids that may be in use, the
\* calls that make Remote records, and list_users.
UserNames == {"n", "m"}

UserNext ==
  \/ RegisterAs(UserOps, UserNames, FALSE)
  \/ SendText(UserOps, {1}, ClientIds)
  \/ Announce(UserOps, {<<1>>}, ClientOrders)
  \/ ListUsers(UserOps)

UserSpec == Init /\ [][UserNext]_vars

TypeOK ==
  /\ DOMAIN clients \subseteq ClientIds
  /\ DOMAIN routes \subseteq Peers \cup Hops
  /\ nops \in 0..(MaxOps + 2)

\* ------------------------------------------------------- admission claims
StrictlyIncreasing(s) == \A i, j \in 1..Len(s) : i < j => s[i] < s[j]

Largest(s) == CHOOSE m \in Range(s) : \A x \in Range(s) : x <= m

LastOp == last[1]
LastArg == last[2]
LastReply == last[3]

LastCallIs(op) == LastOp = op

\* C1: for every client the admitted seqids are strictly increasing, and the
\* last_sequence of a Local client is the largest seqid admitted from it, 0
\* when none was admitted.
C1_SequenceMonotone ==
  \A c \in ClientIds :
    /\ StrictlyIncreasing(admitted[c])
    /\ IsLocal(clients, c) =>
         clients[c].stuff.last_sequence =
           IF admitted[c] = <<>> THEN 0 ELSE Largest(admitted[c])

\* C1 witness: a Local client with two admitted seqids, the last call an
\* admitted one.
C1_Witness ==
  /\ LastCallIs("handle_sequenced_message")
  /\ LastReply = Ok
  /\ IsLocal(clients, LastArg[1].src)
  /\ Len(admitted[LastArg[1].src]) >= 2

\* the seqids admitted from c before the last call
AdmittedBefore(c) ==
  IF LastCallIs("handle_sequenced_message") /\ LastReply = Ok /\ LastArg[1].src = c
  THEN SubSeq(admitted[c], 1, Len(admitted[c]) - 1)
  ELSE admitted[c]

\* a Sequence that was admitted before and is submitted again with a work
\* proof that verifies
IsReplay(sequence) ==
  /\ sequence.seqid \in Range(AdmittedBefore(sequence.src))
  /\ verify_workproof(Nonce(sequence.src), sequence.workproof, WORKPROOF_STRENGTH)

LastSequences(cl) ==
  [c \in {x \in DOMAIN cl : cl[x].stuff.kind = "Local"} |-> cl[c].stuff.last_sequence]

\* C2: a rejected handle_sequenced_message call changes neither clients nor
\* routes, and a resubmitted Sequence that was admitted before is answered
\* SequenceError with every last_sequence kept.
C2_RejectionKeepsState ==
  LastCallIs("handle_sequenced_message") =>
    /\ LastReply # Ok => clients = before.clients /\ routes = before.routes
    /\ IsReplay(LastArg[1]) =>
         /\ LastReply = Err("SequenceError")
         /\ LastSequences(clients) = LastSequences(before.clients)

\* C3: the reply of handle_sequenced_message is decided by the work proof
\* first, then by the record of src (absent or Remote: UnknownClient), and
\* only for a Local src by the seqid.
C3_CheckOrder ==
  LastCallIs("handle_sequenced_message") =>
    LET sequence == LastArg[1] IN
    LastReply =
      IF ~verify_workproof(Nonce(sequence.src), sequence.workproof,
                           WORKPROOF_STRENGTH)
      THEN Err("WorkProofError")
      ELSE IF ~IsLocal(before.clients, sequence.src)
      THEN Err("UnknownClient")
      ELSE IF before.clients[sequence.src].stuff.last_sequence >= sequence.seqid
      THEN Err("SequenceError")
      ELSE Ok

\* C3 witness: a work proof that does not verify is answered WorkProofError
\* although the seqid of the Local src is not above its last_sequence.
C3_Witness ==
  /\ LastCallIs("handle_sequenced_message")
  /\ LastReply = Err("WorkProofError")
  /\ IsLocal(clients, LastArg[1].src)
  /\ clients[LastArg[1].src].stuff.last_sequence >= LastArg[1].seqid
  /\ clients[LastArg[1].src].stuff.last_sequence > 0

\* --------------------------------------------------------- mailbox claims
\* C4: every mailbox holds at most MAILBOX_SIZE entries.
C4_MailboxBound ==
  \A c \in DOMAIN clients : Len(clients[c].mailbox) <= MAILBOX_SIZE

\* C5: a record that was Local before a call is the same Local record, but
\* for its last_sequence and its mailbox, after it.
C5_LocalForever ==
  \A c \in DOMAIN before.clients :
    before.clients[c].stuff.kind = "Local" =>
      /\ IsLocal(clients, c)
      /\ clients[c].stuff.name = before.clients[c].stuff.name

\* the last call was handle_client_message with one destination
LastCallIsText ==
  /\ LastCallIs("handle_client_message")
  /\ Len(LastArg[2].dest) = 1

\* C6: a message to a Local destination whose mailbox holds MAILBOX_SIZE
\* entries is answered Error(BoxFull(dest)) and changes nothing; with room,
\* (src, content) is put at the back of that mailbox, nothing else changes,
\* and the answer is Delivered.
C6_LocalDelivery ==
  (LastCallIsText /\ IsLocal(before.clients, LastArg[2].dest[1])) =>
    LET src == LastArg[1]
        dest == LastArg[2].dest[1]
        content == LastArg[2].content
        mailbox == before.clients[dest].mailbox
    IN IF Len(mailbox) >= MAILBOX_SIZE
       THEN /\ LastReply = <<Error(BoxFull(dest))>>
            /\ clients = before.clients
       ELSE /\ LastReply = <<Delivered>>
            /\ clients = [before.clients EXCEPT
                 ![dest].mailbox = mailbox \o <<MessageInfo(src, content)>>]

\* C6 witness: a message to a Local client with a full mailbox was refused.
C6_Witness ==
  /\ LastCallIsText
  /\ IsLocal(before.clients, LastArg[2].dest[1])
  /\ LastReply = <<Error(BoxFull(LastArg[2].dest[1]))>>
  /\ Len(clients[LastArg[2].dest[1]].mailbox) = MAILBOX_SIZE

\* the texts, in the order polled, of the client messages of src
PolledFrom(r, src) ==
  LET keep == {i \in 1..Len(polled[r]) : polled[r][i][1] = src /\ polled[r][i][2] > 0}
      nth(k) == CHOOSE i \in keep : Cardinality({j \in keep : j < i}) = k - 1
  IN [k \in 1..Cardinality(keep) |-> polled[r][nth(k)][2]]

\* C7: the polls of a recipient return the messages of one sender in the
\* order of their acknowledgement, which is the order of their texts.
C7_Fifo ==
  \A r \in ClientIds, src \in ClientIds :
    \A i, j \in 1..Len(PolledFrom(r, src)) :
      i < j => PolledFrom(r, src)[i] <= PolledFrom(r, src)[j]

\* C7 witness: sender and recipient are Local, the recipient polled two
\* messages of the sender and the second poll came after a further delivery
\* into the mailbox it polled.
C7_Witness ==
  \E r \in ClientIds, src \in ClientIds :
    /\ r # src
    /\ IsLocal(clients, r)
    /\ IsLocal(clients, src)
    /\ LastCallIs("client_poll")
    /\ LastArg[1] = r
    /\ Len(PolledFrom(r, src)) = 2
    /\ PolledFrom(r, src)[1] < PolledFrom(r, src)[2]
    /\ clients[r].mailbox # <<>>
    /\ clients[r].mailbox[1].src = src
    /\ clients[r].mailbox[1].content > PolledFrom(r, src)[2] + 1

\* C8: client_poll of an id without record answers
\* DelayedError(UnknownRecipient(id)), of an empty mailbox Nothing, and
\* otherwise takes the front entry off the mailbox and answers it.
C8_Poll ==
  LastCallIs("client_poll") =>
    LET client == LastArg[1] IN
    IF client \notin DOMAIN before.clients
    THEN /\ LastReply = DelayedError(UnknownRecipient(client))
         /\ clients = before.clients
    ELSE IF before.clients[client].mailbox = <<>>
    THEN /\ LastReply = PollNothing
         /\ clients = before.clients
    ELSE /\ LastReply = PollMessage(before.clients[client].mailbox[1].src,
                                      before.clients[client].mailbox[1].content)
         /\ clients = [before.clients EXCEPT ![client].mailbox = Tail(@)]

\* C8 witness: a poll took the first of two entries.
C8_Witness ==
  /\ LastCallIs("client_poll")
  /\ LastReply[1] = "Message"
  /\ Len(before.clients[LastArg[1]].mailbox) = 2
  /\ Len(clients[LastArg[1]].mailbox) = 1

\* the record of d after k messages (src, content) were dispatched to it
\* from the clients map cl
AfterCopies(cl, d, k, src, content) ==
  LET copies(n) == [i \in 1..n |-> MessageInfo(src, content)]
      room(len) == IF MAILBOX_SIZE > len THEN MAILBOX_SIZE - len ELSE 0
      least(a, b) == IF a < b THEN a ELSE b
  IN IF k = 0 THEN cl
     ELSE IF d \notin DOMAIN cl
     THEN Insert(cl, d, ClientInfo(Remote(None),
                          copies(1 + least(k - 1, room(1)))))
     ELSE IF cl[d].stuff.kind = "Local" \/ cl[d].stuff = Remote(None)
     THEN [cl EXCEPT ![d].mailbox = @ \o copies(least(k, room(Len(@))))]
     ELSE cl

\* how many of the first n destinations are d
Earlier(dest, n, d) == Cardinality({j \in 1..n : dest[j] = d})

\* C9: handle_client_message answers a message of n destinations with n
\* replies, the i-th the outcome of dispatching (src, d_i, content) after the
\* destinations before it, each destination getting one copy per listing.
C9_OneReplyPerDestination ==
  LastCallIs("handle_client_message") =>
    LET src == LastArg[1]
        dest == LastArg[2].dest
        content == LastArg[2].content
    IN /\ Len(LastReply) = Len(dest)
       /\ LastArg[2].type = "Text" => Len(LastReply) = 1
       /\ \A i \in 1..Len(dest) :
            LastReply[i] =
              handle_single_message(
                AfterCopies(before.clients, dest[i], Earlier(dest, i - 1, dest[i]),
                            src, content),
                before.routes, src, dest[i], content).reply
       /\ \A d \in Range(dest) :
            clients[d] =
              AfterCopies(before.clients, d, Earlier(dest, Len(dest), d),
                          src, content)[d]

\* C9 witness: an MText that lists one destination twice put two copies in
\* its mailbox, of which the second filled it.
C9_Witness ==
  /\ LastCallIs("handle_client_message")
  /\ LastArg[2].type = "MText"
  /\ Len(LastArg[2].dest) = 2
  /\ LastArg[2].dest[1] = LastArg[2].dest[2]
  /\ LastReply = <<Delivered, Delivered>>
  /\ Len(clients[LastArg[2].dest[1]].mailbox) =
       Len(before.clients[LastArg[2].dest[1]].mailbox) + 2

\* C10: a message to an id without record makes a Remote record without
\* server whose mailbox holds that message alone, and is answered Delayed.
C10_UnknownDestination ==
  (LastCallIsText /\ LastArg[2].dest[1] \notin DOMAIN before.clients) =>
    /\ LastReply = <<Delayed>>
    /\ clients = Insert(before.clients, LastArg[2].dest[1],
                   ClientInfo(Remote(None),
                     <<MessageInfo(LastArg[1], LastArg[2].content)>>))

\* C10 witness: a message went to an id that had no record.
C10_Witness ==
  /\ LastCallIsText
  /\ LastArg[2].dest[1] \notin DOMAIN before.clients
  /\ LastReply = <<Delayed>>
  /\ IsRemote(clients, LastArg[2].dest[1])

\* ------------------------------------------------------ federation claims
\* C11: a message to a destination whose record is Remote without server is
\* put at the back of that record's mailbox and answered Delayed.
C11_BufferedDelayed ==
  (/\ LastCallIsText
   /\ LastArg[2].dest[1] \in DOMAIN before.clients
   /\ before.clients[LastArg[2].dest[1]].stuff = Remote(None)) =>
    /\ LastReply = <<Delayed>>
    /\ clients = [before.clients EXCEPT ![LastArg[2].dest[1]].mailbox =
                    Append(@, MessageInfo(LastArg[1], LastArg[2].content))]

\* C12: an Announce of a non-empty route that names one client without
\* record answers Outgoing([]), and a Text to that client from a Local client
\* in the next call is answered by one Transfer to the last server of the
\* route, whose dsts holds the client with the first server of the route.
C12_AnnounceThenTransfer ==
  [][(/\ LastCallIs("announce")
      /\ LastArg[1] # <<>>
      /\ Len(LastArg[2]) = 1
      /\ LastArg[2][1] \notin DOMAIN before.clients) =>
       /\ LastReply = ReplyOutgoing(<<>>)
       /\ (/\ last'[1] = "handle_client_message"
           /\ last'[2][2].dest = <<LastArg[2][1]>>
           /\ IsLocal(clients, last'[2][1])) =>
            last'[3] =
              <<Transfer(LastArg[1][Len(LastArg[1])],
                  FullyQualifiedMessage(last'[2][1], SelfId,
                    <<<<LastArg[2][1], LastArg[1][1]>>>>, last'[2][2].content))>>]_vars

\* C12 witness: the second call, a Text from a Local client, was answered
\* by a Transfer to a server other than the one in dsts; the first call was
\* the Announce that made the destination Remote.
C12_Witness ==
  /\ nops = 2
  /\ LastCallIsText
  /\ IsLocal(clients, LastArg[1])
  /\ LastReply[1][1] = "Transfer"
  /\ LastReply[1][2] # LastReply[1][3].dsts[1][2]

\* C13: a message to a destination that is Remote with server s is answered
\* by a Transfer whose dsts is [(dest, s)] and whose nexthop is the first
\* element of the route stored for s.
C13_TransferNexthop ==
  (/\ LastCallIsText
   /\ IsRemote(before.clients, LastArg[2].dest[1])
   /\ before.clients[LastArg[2].dest[1]].stuff.server # None) =>
    LET dest == LastArg[2].dest[1]
        s == before.clients[dest].stuff.server[1]
    IN LastReply =
         <<Transfer(before.routes[s][1],
             FullyQualifiedMessage(LastArg[1], SelfId, <<<<dest, s>>>>,
                                   LastArg[2].content))>>

\* the last call was an Announce with a route that is not empty
LastCallIsAnnounce == LastCallIs("announce") /\ LastArg[1] # <<>>

\* C14: after an Announce with a route that is not empty, every client it
\* names that was not Local is Remote with the last server of the route.
C14_AnnouncedVia ==
  LastCallIsAnnounce =>
    \A e \in Range(LastArg[2]) :
      ~IsLocal(before.clients, e) =>
        /\ IsRemote(clients, e)
        /\ clients[e].stuff.server = Some(LastArg[1][Len(LastArg[1])])

\* the Outgoing list the buffered messages of client e are to give: each
\* sent to the first server of the route, with the last one in dsts
Drained(mailbox, e, route) ==
  [i \in 1..Len(mailbox) |->
     Outgoing(route[1],
       FullyQualifiedMessage(mailbox[i].src, SelfId,
         <<<<e, route[Len(route)]>>>>, mailbox[i].content))]

\* the messages of an Outgoing reply that are addressed to client e
OutgoingFor(reply, e) ==
  SelectSeq(reply[2], LAMBDA o : o.message.dsts[1][1] = e)

\* C15: an Announce with a route that is not empty, naming a client whose
\* record buffers k messages, answers with those k messages in their order,
\* src and content kept, each with the last server of the route in dsts and
\* the first as nexthop, and leaves the mailbox of the record empty.
C15_DrainOnAnnounce ==
  LastCallIsAnnounce =>
    \A e \in Range(LastArg[2]) :
      (e \in DOMAIN before.clients /\ before.clients[e].stuff = Remote(None)) =>
        /\ LastReply[1] = "Outgoing"
        /\ OutgoingFor(LastReply, e) =
             Drained(before.clients[e].mailbox, e, LastArg[1])
        /\ clients[e].mailbox = <<>>

\* C16: an Announce with an empty route answers EmptyRoute and changes
\* neither the clients nor the routes.
C16_EmptyRoute ==
  (LastCallIs("announce") /\ LastArg[1] = <<>>) =>
    /\ LastReply = EmptyRoute
    /\ clients = before.clients
    /\ routes = before.routes

\* C16 witness: an Announce with an empty route named a client, one that
\* has messages buffered, on a server that knows a route.
C16_Witness ==
  /\ LastCallIs("announce")
  /\ LastArg[1] = <<>>
  /\ LastArg[2] # <<>>
  /\ LastReply = EmptyRoute
  /\ routes # <<>>
  /\ \E e \in Range(LastArg[2]) :
       e \in DOMAIN clients /\ clients[e].mailbox # <<>>

\* C17: every stored route is a path that is not empty and ends in its key,
\* and an Announce with a route that is not empty stores the route under
\* its last server.
C17_RoutesEndInKey ==
  /\ \A d \in DOMAIN routes :
       routes[d] # <<>> /\ routes[d][Len(routes[d])] = d
  /\ LastCallIsAnnounce =>
       routes = Insert(before.routes, LastArg[1][Len(LastArg[1])], LastArg[1])

\* the clients map after the entries dsts of the message fqm were delivered
\* to the Local clients they name with this server
RECURSIVE DeliveredHere(_, _, _)
DeliveredHere(cl, fqm, dsts) ==
  IF dsts = <<>>
  THEN cl
  ELSE LET dest_client == Head(dsts)[1]
           dest_server == Head(dsts)[2]
       IN DeliveredHere(
            IF dest_server = SelfId /\ IsLocal(cl, dest_client)
            THEN [cl EXCEPT ![dest_client].mailbox =
                    Append(@, MessageInfo(fqm.src, fqm.content))]
            ELSE cl,
            fqm, Tail(dsts))

\* C18: a Message of a peer server puts (src, content) into the mailboxes of
\* the Local clients its dsts names together with this server, and into no
\* other mailbox.
C18_DeliveredOnlyHere ==
  LastCallIs("message") =>
    clients = DeliveredHere(before.clients, LastArg[1], LastArg[1].dsts)

\* the entries of dsts whose client is not Local in cl: the entries a
\* Message does not deliver
Undelivered(cl, dsts) == SelectSeq(dsts, LAMBDA d : ~IsLocal(cl, d[1]))

\* nexthop, src, content and dsts of the Outgoing messages that the entries
\* of a Message with a stored route are to give
Forwarded(rt, fqm, entries) ==
  LET known == SelectSeq(entries, LAMBDA d : d[2] \in DOMAIN rt)
  IN [i \in 1..Len(known) |->
        <<rt[known[i][2]][1], fqm.src, fqm.content, <<known[i]>>>>]

\* C19: a Message of a peer server answers with one Outgoing for every entry
\* of its dsts that it does not deliver and whose server has a stored route,
\* sent to the next hop of that route with src and content kept and the
\* entry alone in dsts, and with none for an entry without route; a Message
\* that delivers nothing changes no state.
C19_ForwardUndelivered ==
  LastCallIs("message") =>
    /\ [i \in 1..Len(LastReply[2]) |->
          <<LastReply[2][i].nexthop, LastReply[2][i].message.src,
            LastReply[2][i].message.content, LastReply[2][i].message.dsts>>]
         = Forwarded(before.routes, LastArg[1],
                     Undelivered(before.clients, LastArg[1].dsts))
    /\ Undelivered(before.clients, LastArg[1].dsts) = LastArg[1].dsts =>
         clients = before.clients /\ routes = before.routes

\* the keys of the stored routes that hold the destination
Reaching(rt, destination) ==
  {k \in DOMAIN rt : destination \in Range(rt[k])}

\* the route that route_to builds from the route stored under key k
Candidate(rt, k, destination) ==
  <<SelfId>> \o Reverse(SubSeq(rt[k], Position(rt[k], destination), Len(rt[k])))

\* the keys whose candidates have the fewest hops
Fewest(rt, destination) ==
  {k \in Reaching(rt, destination) :
     \A o \in Reaching(rt, destination) :
       Len(Candidate(rt, k, destination)) <= Len(Candidate(rt, o, destination))}

\* C20: route_to answers none when no stored route holds the destination,
\* and else the route of fewest hops, of the smallest next hop among those.
C20_RouteToDeterministic ==
  LastCallIs("route_to") =>
    LET destination == LastArg[1]
        fewest == Fewest(before.routes, destination)
    IN IF Reaching(before.routes, destination) = {}
       THEN LastReply = None
       ELSE LastReply =
              Some(Candidate(before.routes,
                             CHOOSE k \in fewest : \A o \in fewest : k <= o,
                             destination))

\* C21: a path that route_to returns for d ends in d and starts with the
\* first server of the route of an Announce handled before whose last
\* server was d.
C21_RouteValid ==
  (LastCallIs("route_to") /\ LastReply # None) =>
    LET path == LastReply[1]
        d == LastArg[1]
    IN /\ path[Len(path)] = d
       /\ \E route \in announced :
            route[1] = path[1] /\ route[Len(route)] = d

\* ------------------------------------------------------------ user claims
\* C22: list_users answers the ids and names of the records that are Local,
\* which are the ids registered, each with the name it was registered with.
C22_ListUsers ==
  LastCallIs("list_users") =>
    /\ DOMAIN LastReply = {c \in DOMAIN clients : IsLocal(clients, c)}
    /\ \A c \in DOMAIN LastReply : LastReply[c] = clients[c].stuff.name
    /\ LastReply = registered

\* C23: register_local_client answers an id that had no record, inserts a
\* Local record of the given name with last_sequence 0 and an empty mailbox
\* for it, and leaves the other records as they were.
C23_RegisterFresh ==
  LastCallIs("register_local_client") =>
    /\ LastReply[1] \notin DOMAIN before.clients
    /\ clients = Insert(before.clients, LastReply[1],
                        ClientInfo(Local(LastArg[1], 0), <<>>))


\* C27: an Announce of a non-empty route handled right after the same
\* Announce (the same route, the same clients) leaves clients and routes as
\* the first call left them and answers Outgoing([]).
C27_AnnounceIdempotent ==
  [][(/\ LastCallIsAnnounce
      /\ last'[1] = "announce"
      /\ last'[2][1] = LastArg[1]
      /\ Range(last'[2][2]) = Range(LastArg[2])) =>
       /\ clients' = clients
       /\ routes' = routes
       /\ last'[3] = ReplyOutgoing(<<>>)]_vars

\* C27 witness: the second call was an Announce that named some client and
\* left clients and routes as it found them: the stored route and the Remote
\* records it names, and no others, were there before, which only the same
\* Announce as first call brings about.
C27_Witness ==
  /\ nops = 2
  /\ LastCallIsAnnounce
  /\ LastArg[2] # <<>>
  /\ LastReply = ReplyOutgoing(<<>>)
  /\ before.clients = clients
  /\ before.routes = routes
  /\ routes = Insert(<<>>, LastArg[1][1], LastArg[1])
  /\ {c \in DOMAIN clients : IsRemote(clients, c)} = Range(LastArg[2])
  /\ \A c \in Range(LastArg[2]) : clients[c].stuff.server = Some(LastArg[1][1])

\* the Remote records with a server
Routed(cl) == {c \in DOMAIN cl : IsRemote(cl, c) /\ cl[c].stuff.server # None}

\* C31: every Remote record with server s has a stored route routes[s] that
\* is not empty, and no reply of handle_client_message is a failed expect().
C31_RouteForEveryRemote ==
  /\ \A c \in Routed(clients) :
       /\ clients[c].stuff.server[1] \in DOMAIN routes
       /\ routes[clients[c].stuff.server[1]] # <<>>
  /\ LastCallIs("handle_client_message") =>
       \A i \in 1..Len(LastReply) : LastReply[i] # Panic

\* C31 witness: a message to a Remote record with a server was answered by
\* a Transfer, built from the two lookups in the routing table.
C31_Witness ==
  /\ LastCallIsText
  /\ LastArg[2].dest[1] \in Routed(before.clients)
  /\ LastReply[1][1] = "Transfer"

\* C32: every Remote record with a server has an empty mailbox, and an
\* Announce leaves the mailbox of every client it names empty.
C32_RoutedMailboxEmpty ==
  /\ \A c \in Routed(clients) : clients[c].mailbox = <<>>
  /\ LastCallIsAnnounce =>
       \A c \in Range(LastArg[2]) :
         c \in Routed(clients) /\ clients[c].mailbox = <<>>

\* C32 witness: an Announce gave a server to a record that held buffered
\* messages, and sent them on.
C32_Witness ==
  /\ LastCallIsAnnounce
  /\ \E c \in Range(LastArg[2]) :
       /\ c \in DOMAIN before.clients
       /\ before.clients[c].mailbox # <<>>
       /\ LastReply[2] # <<>>

\* The handlers take &self: tasks may call them at the same time, and the
\* two RwLocks of the Server order what they do. A task moves from one
\* .await of a guard to the next; a guard is dropped where its scope ends.
Write(lock) == <<lock, "write">>
Read(lock) == <<lock, "read">>

TaskOp(t) == tasks[t][1]
TaskPc(t) == tasks[t][2]
TaskArg(t) == tasks[t][3]
TaskOut(t) == tasks[t][4]
TaskNeed(t) == tasks[t][5]

\* async_std::sync::RwLock: a write guard is granted when no guard is held,
\* a read guard when no write guard is held; the lock does not know its
\* holders, so a task that holds a guard is refused like any other
granted(held, mode) ==
  IF mode = "write" THEN held = {} ELSE \A h \in held : h[2] = "read"

\* the drop of every guard of a task
drop(g, t) == [lock \in Locks |-> {h \in g[lock] : h[1] # t}]

\* the guards each handler awaits, in the order of its code
\* a mutant of sequenced_guards: the seqid is tested and stored under a read
\* guard
sequenced_guards_read == <<Read("clients")>>
sequenced_guards == <<Write("clients")>>
single_message_guards == <<Write("clients"), Read("routes")>>
poll_guards == <<Write("clients")>>
announce_guards == <<Write("routes"), Write("clients")>>
message_guards == <<Write("clients")>>
list_users_guards == <<Read("clients")>>
route_to_guards == <<Read("routes")>>

\* whether the Message arm calls self.route_to, which awaits a read guard of
\* routes under the write guard of clients: some destination is Remote with
\* a server
calls_route_to(cl, fqm) ==
  \E i \in 1..Len(fqm.dsts) :
    /\ IsRemote(cl, fqm.dsts[i][1])
    /\ cl[fqm.dsts[i][1]].stuff.server # None

\* the handler calls of TaskSpec: <<handler, arguments>>
TaskCalls ==
  ({"handle_sequenced_message"} \X {<<sequence>> : sequence \in Sequences})
  \cup ({"handle_client_message"} \X
          {<<1, IF Len(dest) = 1 THEN Text(dest[1], 0) ELSE MText(dest, 0)>> :
             dest \in DestLists \ {<<>>}})
  \cup ({"client_poll"} \X {<<client>> : client \in ClientIds})
  \cup ({"announce"} \X {<<route, order>> : route \in {<<>>, <<1>>},
                                            order \in {<<>>, <<1>>, <<2>>}})
  \cup ({"message"} \X {<<fqm>> : fqm \in FullyQualifiedMessages})
  \cup ({"list_users"} \X {<<>>})
  \cup ({"route_to"} \X {<<destination>> : destination \in Peers})

\* the guards a call awaits first
first_guards(op) ==
  CASE op = "handle_sequenced_message" -> sequenced_guards
    [] op = "handle_client_message" -> single_message_guards
    [] op = "client_poll" -> poll_guards
    [] op = "announce" -> announce_guards
    [] op = "message" -> message_guards
    [] op = "list_users" -> list_users_guards
    [] op = "route_to" -> route_to_guards

\* A task calls a handler and runs it up to its first .await of a guard:
\* handle_sequenced_message returns from there when the work proof fails.
Spawn(t) ==
  /\ TaskOp(t) = "idle"
  /\ \E call \in TaskCalls :
       tasks' = [tasks EXCEPT ![t] =
         IF /\ call[1] = "handle_sequenced_message"
            /\ ~verify_workproof(Nonce(call[2][1].src), call[2][1].workproof,
                                 WORKPROOF_STRENGTH)
         THEN Task(call[1], "done", call[2], <<Err("WorkProofError")>>, <<>>)
         ELSE Task(call[1], "await", call[2], <<>>, first_guards(call[1]))]
  /\ UNCHANGED <<clients, routes, last, before, admitted, polled, nops,
                 announced, registered, guards, wire, sent>>

\* A task is granted the guard it awaits. The Message arm goes on to await a
\* read guard of routes when it has a destination to forward.
Await(t) ==
  /\ TaskPc(t) = "await"
  /\ LET lock == Head(TaskNeed(t))[1]
         mode == Head(TaskNeed(t))[2]
         need == IF /\ TaskOp(t) = "message"
                    /\ lock = "clients"
                    /\ calls_route_to(clients, TaskArg(t)[1])
                 THEN <<Read("routes")>>
                 ELSE Tail(TaskNeed(t))
     IN /\ granted(guards[lock], mode)
        /\ guards' = [guards EXCEPT ![lock] = @ \cup {<<t, mode>>}]
        /\ tasks' = [tasks EXCEPT ![t] =
             Task(TaskOp(t), IF need = <<>> THEN "run" ELSE "await",
                  TaskArg(t), TaskOut(t), need)]
  /\ UNCHANGED <<clients, routes, last, before, admitted, polled, nops,
                 announced, registered, wire, sent>>

\* the end of a handler call: its guards drop and its reply is returned
Return(t, out) ==
  /\ tasks' = [tasks EXCEPT ![t] = Task(TaskOp(t), "done", TaskArg(t), out, <<>>)]
  /\ guards' = drop(guards, t)

\* handle_sequenced_message under its guard: the seqid test
RunSequenced(t) ==
  /\ TaskPc(t) = "run"
  /\ TaskOp(t) = "handle_sequenced_message"
  /\ LET r == handle_sequenced_message(clients, TaskArg(t)[1]) IN
     IF r.reply = Ok
     THEN /\ tasks' = [tasks EXCEPT ![t] =
               Task(TaskOp(t), "store", TaskArg(t), <<>>, <<>>)]
          /\ UNCHANGED guards
     ELSE Return(t, <<r.reply>>)
  /\ UNCHANGED <<clients, routes, last, before, admitted, polled, nops,
                 announced, registered, wire, sent>>

\* handle_sequenced_message under its guard: *last_sequence = sequence.seqid
StoreSequenced(t) ==
  /\ TaskPc(t) = "store"
  /\ clients' = [clients EXCEPT
       ![TaskArg(t)[1].src].stuff.last_sequence = TaskArg(t)[1].seqid]
  /\ Return(t, <<Ok>>)
  /\ UNCHANGED <<routes, last, before, admitted, polled, nops, announced,
                 registered, wire, sent>>

\* handle_client_message: one call of handle_single_message, under its two
\* guards, which drop when it returns; the loop goes on to the next
\* recipient, for which the guards are awaited again
RunSingleMessage(t) ==
  /\ TaskPc(t) = "run"
  /\ TaskOp(t) = "handle_client_message"
  /\ LET src == TaskArg(t)[1]
         msg == TaskArg(t)[2]
         recipient == msg.dest[Len(TaskOut(t)) + 1]
         r == handle_single_message(clients, routes, src, recipient, msg.content)
         replies == Append(TaskOut(t), r.reply)
     IN /\ clients' = r.clients
        /\ IF Len(replies) < Len(msg.dest)
           THEN /\ tasks' = [tasks EXCEPT ![t] =
                     Task(TaskOp(t), "await", TaskArg(t), replies,
                          single_message_guards)]
                /\ guards' = drop(guards, t)
           ELSE Return(t, replies)
  /\ UNCHANGED <<routes, last, before, admitted, polled, nops, announced,
                 registered, wire, sent>>

RunPoll(t) ==
  /\ TaskPc(t) = "run"
  /\ TaskOp(t) = "client_poll"
  /\ LET r == client_poll(clients, TaskArg(t)[1]) IN
     /\ clients' = r.clients
     /\ Return(t, <<r.reply>>)
  /\ UNCHANGED <<routes, last, before, admitted, polled, nops, announced,
                 registered, wire, sent>>

RunAnnounce(t) ==
  /\ TaskPc(t) = "run"
  /\ TaskOp(t) = "announce"
  /\ LET r == handle_announce(clients, routes, TaskArg(t)[1], TaskArg(t)[2]) IN
     /\ clients' = r.clients
     /\ routes' = r.routes
     /\ Return(t, <<r.reply>>)
  /\ UNCHANGED <<last, before, admitted, polled, nops, announced, registered,
                 wire, sent>>

RunMessage(t) ==
  /\ TaskPc(t) = "run"
  /\ TaskOp(t) = "message"
  /\ LET r == handle_message(clients, routes, TaskArg(t)[1]) IN
     /\ clients' = r.clients
     /\ Return(t, <<r.reply>>)
  /\ UNCHANGED <<routes, last, before, admitted, polled, nops, announced,
                 registered, wire, sent>>

RunListUsers(t) ==
  /\ TaskPc(t) = "run"
  /\ TaskOp(t) = "list_users"
  /\ Return(t, <<list_users(clients)>>)
  /\ UNCHANGED <<clients, routes, last, before, admitted, polled, nops,
                 announced, registered, wire, sent>>

RunRouteTo(t) ==
  /\ TaskPc(t) = "run"
  /\ TaskOp(t) = "route_to"
  /\ \E shortest_route \in route_to(routes, TaskArg(t)[1]) :
       Return(t, <<shortest_route>>)
  /\ UNCHANGED <<clients, routes, last, before, admitted, polled, nops,
                 announced, registered, wire, sent>>

\* Tasks: NumTasks tasks, each calling one handler, in every interleaving
\* of their steps.
TaskNext ==
  \E t \in Tasks :
    \/ Spawn(t)
    \/ Await(t)
    \/ RunSequenced(t)
    \/ StoreSequenced(t)
    \/ RunSingleMessage(t)
    \/ RunPoll(t)
    \/ RunAnnounce(t)
    \/ RunMessage(t)
    \/ RunListUsers(t)
    \/ RunRouteTo(t)

TaskSpec == Init /\ [][TaskNext]_vars


\* ------------------------------------------------------ concurrency claims
\* two calls of handle_sequenced_message, one after the other
SerialSequenced(cl, first, second) ==
  LET a == handle_sequenced_message(cl, first)
      b == handle_sequenced_message(a.clients, second)
  IN [clients |-> b.clients, first |-> a.reply, second |-> b.reply]

\* tasks t and u have both returned from handle_sequenced_message, called
\* with the same src, and no other task has called a handler
SequencedRace(t, u) ==
  /\ t # u
  /\ TaskOp(t) = "handle_sequenced_message" /\ TaskPc(t) = "done"
  /\ TaskOp(u) = "handle_sequenced_message" /\ TaskPc(u) = "done"
  /\ TaskArg(t)[1].src = TaskArg(u)[1].src
  /\ \A v \in Tasks \ {t, u} : TaskOp(v) = "idle"

\* a sequence the handler admits when called alone on the clients map cl
Admissible(cl, sequence) == handle_sequenced_message(cl, sequence).reply = Ok

\* C24: two concurrent calls of handle_sequenced_message from the same src
\* leave the replies and the clients map of one of the two serial orders;
\* when both carry the same admissible seqid, exactly one is admitted and
\* the other gets SequenceError.
C24_SequencedSerializable ==
  \A t, u \in Tasks :
    SequencedRace(t, u) =>
      LET first == TaskArg(t)[1]
          second == TaskArg(u)[1]
          outcome(a, b) == [clients |-> clients, first |-> a, second |-> b]
      IN /\ \/ SerialSequenced(before.clients, first, second)
                 = outcome(TaskOut(t)[1], TaskOut(u)[1])
            \/ SerialSequenced(before.clients, second, first)
                 = outcome(TaskOut(u)[1], TaskOut(t)[1])
         /\ ( /\ first.seqid = second.seqid
              /\ Admissible(before.clients, first)
              /\ Admissible(before.clients, second) ) =>
              {TaskOut(t)[1], TaskOut(u)[1]} = {Ok, Err("SequenceError")}

\* two calls with the same src and the same admissible seqid have returned,
\* the second one having been spawned while the first held its guard
C24_Witness ==
  \E t, u \in Tasks :
    /\ SequencedRace(t, u)
    /\ TaskArg(t)[1].seqid = TaskArg(u)[1].seqid
    /\ Admissible(before.clients, TaskArg(t)[1])
    /\ TaskOut(t) = <<Ok>>
    /\ TaskOut(u) = <<Err("SequenceError")>>


\* task t holds a guard of the lock
Holds(t, lock) == \E h \in guards[lock] : h[1] = t

\* task t awaits a guard of the lock that the guards held keep from being
\* granted
Waits(t, lock) ==
  /\ TaskPc(t) = "await"
  /\ Head(TaskNeed(t))[1] = lock
  /\ ~granted(guards[lock], Head(TaskNeed(t))[2])

\* task t is in a handle_client_message that has dispatched to some of its
\* destinations and not yet to all
BetweenDispatches(t) ==
  /\ TaskOp(t) = "handle_client_message"
  /\ TaskPc(t) # "done"
  /\ Len(TaskOut(t)) > 0
  /\ Len(TaskOut(t)) < Len(TaskArg(t)[2].dest)
  /\ ~Holds(t, "clients")

\* C25: a handler holds the guard of the server state for its whole
\* decision: while a handle_client_message stands between the dispatch to one
\* destination and the dispatch to the next, no client_poll, other
\* handle_client_message or handle_server_message of another task holds the
\* write guard of clients, under which it takes effect.
C25_HandlerAtomic ==
  \A t, u \in Tasks :
    ( /\ t # u
      /\ BetweenDispatches(t)
      /\ TaskOp(u) \in {"client_poll", "handle_client_message", "announce",
                        "message"} )
      => <<u, "write">> \notin guards["clients"]

\* C26: no two tasks each hold a guard of one of the locks clients and
\* routes while waiting for a guard of the other.
C26_NoCrossWait ==
  \A t, u \in Tasks :
    \A a, b \in Locks :
      ~ ( /\ t # u
          /\ a # b
          /\ Holds(t, a) /\ Waits(t, b)
          /\ Holds(u, b) /\ Waits(u, a) )


\* -------------------------------------------------------------------- codec
\* A u128 is its 16 bytes, least significant first: its values do not fit
\* the integers of the checker. A string is its UTF-8 bytes.
U128Bytes == 16

\* m < u128::pow(2, bits), bits a multiple of 8
below_pow2(m, bits) == \A i \in ((bits \div 8) + 1)..U128Bytes : m[i] = 0

\* a mutant of below_251: 251 passes for a single byte
below_252(m) == below_pow2(m, 8) /\ m[1] < 252

\* m < 251
below_251(m) == below_pow2(m, 8) /\ m[1] < 251

\* w.write_uN::<LittleEndian>(m as uN), N = 8 * n: the n low bytes
write_le(m, n) == SubSeq(m, 1, n)

\* val as u128, val read from n little-endian bytes
widen(bytes) ==
  [i \in 1..U128Bytes |-> IF i <= Len(bytes) THEN bytes[i] ELSE 0]

\* encode::u128: the bytes written
encode_u128(m) ==
  IF below_251(m) THEN write_le(m, 1)
  ELSE IF below_pow2(m, 16) THEN <<251>> \o write_le(m, 2)
  ELSE IF below_pow2(m, 32) THEN <<252>> \o write_le(m, 4)
  ELSE IF below_pow2(m, 64) THEN <<253>> \o write_le(m, 8)
  ELSE <<254>> \o write_le(m, 16)

\* Ok(value) of a decoder
Decoded(value) == <<"Ok", value>>

\* rd.read_uN::<LittleEndian>()? as u128 after the tag, N = 8 * n: an error
\* when fewer than n bytes are left
read_le(rd, n) ==
  IF Len(rd) - 1 < n
  THEN Err("UnexpectedEof")
  ELSE Decoded(widen(SubSeq(rd, 2, n + 1)))

\* decode::u128 on the bytes rd; the arm `_ => todo!()` panics
decode_u128(rd) ==
  IF rd = <<>> THEN Err("UnexpectedEof")
  ELSE LET val == rd[1] IN
       IF val < 251 THEN Decoded(widen(<<val>>))
       ELSE CASE val = 251 -> read_le(rd, 2)
              [] val = 252 -> read_le(rd, 4)
              [] val = 253 -> read_le(rd, 8)
              [] val = 254 -> read_le(rd, 16)
              [] OTHER -> Panic

\* encode::string: bytes.len() as u8, then the bytes
encode_string(bytes) == <<Len(bytes) % 256>> \o bytes

\* String::from_utf8 accepts the bytes: the strings here are ASCII
valid_utf8(buffer) == \A i \in 1..Len(buffer) : buffer[i] < 128

\* decode::string on the bytes rd
decode_string(rd) ==
  IF rd = <<>> THEN Err("UnexpectedEof")
  ELSE LET len == rd[1] IN
       IF Len(rd) - 1 < len THEN Err("UnexpectedEof")
       ELSE LET buffer == SubSeq(rd, 2, len + 1) IN
            IF valid_utf8(buffer) THEN Decoded(buffer) ELSE Err("FromUtf8Error")

\* the u128 values encoded: n significant bytes, of which the lowest and the
\* highest take the values next to the tags, and the ones between are all 0
\* or all 255; they hold every bound of the tier table and its neighbours
ByteSamples == {0, 1, 250, 251, 255}
U128Samples ==
  {[i \in 1..U128Bytes |->
      IF i = 1 THEN lo
      ELSE IF i = n THEN hi
      ELSE IF i < n THEN mid ELSE 0] :
     n \in 1..U128Bytes, lo \in ByteSamples, hi \in ByteSamples, mid \in {0, 255}}

\* the strings encoded: ASCII text of the lengths around one byte
StringLengths == {0, 1, 250, 251, 255, 256, MaxString}
StringSamples == {[i \in 1..n |-> 97] : n \in StringLengths}

\* the datagrams received: every leading byte next to the tags, followed by
\* no, some or all of the bytes a tag announces
FrameSamples ==
  {<<>>} \cup
  {<<tag>> \o [i \in 1..n |-> 1] :
     tag \in {0, 250, 251, 252, 253, 254, 255}, n \in {0, 1, 2, 4, 8, 16}}

\* The codec functions write to and read from the wire; the value encoded
\* is kept in `sent`, and `last` holds the name of the call and its result.
\* the handlers' state, which no codec function reads or writes
server == <<clients, routes, before, admitted, polled, nops, announced,
            registered, tasks, guards>>

EncodeU128 ==
  /\ \E m \in U128Samples :
       /\ wire' = encode_u128(m)
       /\ sent' = Some(m)
       /\ last' = Call("encode_u128", <<>>, Ok)
  /\ UNCHANGED server

EncodeString ==
  /\ \E m \in StringSamples :
       /\ wire' = encode_string(m)
       /\ sent' = Some(m)
       /\ last' = Call("encode_string", <<>>, Ok)
  /\ UNCHANGED server

\* socket.recv_from: a datagram of a peer
Receive ==
  /\ \E buf \in FrameSamples : wire' = buf
  /\ sent' = None
  /\ last' = Call("recv_from", <<>>, Ok)
  /\ UNCHANGED server

DecodeU128 ==
  /\ LastOp \in {"encode_u128", "recv_from"}
  /\ last' = Call("decode_u128", <<>>, decode_u128(wire))
  /\ UNCHANGED <<wire, sent>>
  /\ UNCHANGED server

DecodeString ==
  /\ LastOp \in {"encode_string", "recv_from"}
  /\ last' = Call("decode_string", <<>>, decode_string(wire))
  /\ UNCHANGED <<wire, sent>>
  /\ UNCHANGED server

\* Codec: values are encoded and decoded again, and datagrams of peers are
\* decoded.
CodecNext ==
  \/ EncodeU128
  \/ EncodeString
  \/ Receive
  \/ DecodeU128
  \/ DecodeString

CodecSpec == Init /\ [][CodecNext]_vars

\* ------------------------------------------------------------- codec claims
\* the tier table: the tag and the number of bytes after it
Tiers == {<<251, 2>>, <<252, 4>>, <<253, 8>>, <<254, 16>>}

\* the number of significant bytes of m
Significant(m) ==
  IF \A i \in 1..U128Bytes : m[i] = 0
  THEN 0
  ELSE CHOOSE n \in 1..U128Bytes :
         m[n] # 0 /\ \A i \in (n + 1)..U128Bytes : m[i] = 0

\* the tiers whose bytes hold m
Fitting(m) == {tier \in Tiers : Significant(m) <= tier[2]}

\* C28: encode::u128(m) is the single byte m for m <= 250, and else the tag
\* of the shortest tier that holds m followed by the little-endian bytes of
\* m, as many as the tier has: 2 below 2^16, 4 below 2^32, 8 below 2^64 and
\* 16 otherwise.
C28_Canonical ==
  LastCallIs("encode_u128") =>
    LET m == sent[1] IN
    IF Significant(m) <= 1 /\ m[1] <= 250
    THEN wire = <<m[1]>>
    ELSE \E tier \in Fitting(m) :
           /\ \A other \in Fitting(m) : tier[2] <= other[2]
           /\ wire = <<tier[1]>> \o SubSeq(m, 1, tier[2])

\* C28 witness: the values at the bounds of the tiers were encoded; here
\* 2^16, the least value of tag 252
C28_Witness ==
  /\ LastCallIs("encode_u128")
  /\ sent = Some(widen(<<0, 0, 1>>))
  /\ wire = <<252, 0, 0, 1, 0>>

\* C29: decode::u128 on bytes that start with 255 returns an error, and the
\* state of the server is as before.
C29_UnknownTagRejected ==
  (LastCallIs("decode_u128") /\ wire # <<>> /\ wire[1] = 255) =>
    /\ LastReply[1] = "Err"
    /\ clients = before.clients
    /\ routes = before.routes

\* C30: a string decoded from its encoding is the string, and the encoding
\* starts with the encoding of its length as encode::u128 writes it.
C30_StringRoundTrip ==
  (LastCallIs("decode_string") /\ sent # None) =>
    LET s == sent[1]
        prefix == encode_u128(widen(<<Len(s) % 256, Len(s) \div 256>>))
    IN /\ LastReply = Decoded(s)
       /\ SubSeq(wire, 1, Len(prefix)) = prefix


\* ---------------------------------------------------------------- listeners
\* server/src/main.rs: the Server is wrapped in one more RwLock, srv, and two
\* tasks loop over the datagrams of a socket each: client_thread (task 1) and,
\* with federation, server_thread (task 2). S is the Server of erasmus.rs.
\* The datagrams are taken as decoded: a Sequence<ClientQuery>, a
\* ServerMessage, or bytes that are neither.
Poll_ == <<"Poll">>
ListUsers_ == <<"ListUsers">>
Register_(name) == <<"Register", name>>
Message_(msg) == <<"Message", msg>>

\* ClientQuery
ClientQueries ==
  {Poll_, ListUsers_}
  \cup {Register_(name) : name \in Names}
  \cup {Message_(Text(dest, 0)) : dest \in {1}}

\* the datagrams of clients
ClientDatagrams ==
  {<<"junk">>} \cup
  {<<"sequence", m>> :
     m \in [seqid : SeqIds, src : ClientIds, workproof : WorkProofs,
            content : ClientQueries]}

\* the datagrams of servers
ServerDatagrams ==
  {<<"junk">>}
  \cup {<<"announce", route, order>> :
          route \in {<<>>, <<1>>}, order \in {<<>>, <<1>>}}
  \cup {<<"message", fqm>> :
          fqm \in {f \in FullyQualifiedMessages :
                     f.src = 1 /\ f.dsts = <<<<1, SelfId>>>>}}

\* decode::sequence(&mut cursor, decode::client_query), as the codec of the
\* specification decodes: the Sequence, or an error
decode_sequence(buf) ==
  IF buf[1] = "sequence" THEN Decoded(buf[2]) ELSE Err("decode")

\* decode::server(&mut cursor), as the codec of the specification decodes
decode_server(buf) ==
  IF buf[1] \in {"announce", "message"} THEN Decoded(buf) ELSE Err("decode")

\* the listener loop is at socket.recv_from
AtRecv(t, thread) ==
  \/ TaskOp(t) = "idle"
  \/ TaskOp(t) = thread /\ TaskPc(t) = "recv"

\* client_thread: a datagram is received and decoded; a Sequence goes on to
\* srv.write().await of the match on handle_sequenced_message
ClientRecv(t) ==
  /\ AtRecv(t, "client_thread")
  /\ \E buf \in ClientDatagrams :
       tasks' = [tasks EXCEPT ![t] =
         IF decode_sequence(buf)[1] = "Ok"
         THEN Task("client_thread", "await", <<decode_sequence(buf)[2]>>, <<>>,
                   <<Write("srv")>>)
         ELSE Task("client_thread", "recv", <<>>, <<>>, <<>>)]
  /\ UNCHANGED <<clients, routes, last, before, admitted, polled, nops,
                 announced, registered, guards, wire, sent>>

\* the arm of an admitted query, under the guard it awaited: the handler
\* call and the reply sent to the peer
query_arm(cl, rt, src, content, user_id) ==
  CASE content[1] = "Poll" ->
         [clients |-> client_poll(cl, src).clients,
          repl |-> client_poll(cl, src).reply]
    [] content[1] = "ListUsers" ->
         [clients |-> cl, repl |-> list_users(cl)]
    [] content[1] = "Register" ->
         [clients |-> register_local_client(cl, user_id, content[2]),
          repl |-> user_id]
    [] content[1] = "Message" ->
         [clients |-> handle_client_message(cl, rt, src, content[2]).clients,
          repl |-> handle_client_message(cl, rt, src, content[2]).replies]

\* client_thread under a guard of srv. The guard awaited in the scrutinee of
\* `match srv.write().await.handle_sequenced_message(m).await` is a temporary
\* of the scrutinee: it is dropped at the end of the match, after the arm.
\* Before the handler has answered, this is the call of
\* handle_sequenced_message: an Err goes to the arm that prints it and the
\* loop receives again, an Ok goes to the arm of the query, which awaits
\* srv.write() first. After that await, it is the arm of the query.
ClientMatch(t) ==
  /\ TaskOp(t) = "client_thread"
  /\ TaskPc(t) = "run"
  /\ LET m == TaskArg(t)[1] IN
     IF TaskOut(t) = <<>>
     THEN LET r == handle_sequenced_message(clients, m) IN
          /\ clients' = r.clients
          /\ before' = [clients |-> clients, routes |-> routes]
          /\ IF r.reply = Ok
             THEN /\ tasks' = [tasks EXCEPT ![t] =
                       Task("client_thread", "await", <<m>>, <<Ok>>,
                            <<Write("srv")>>)]
                  /\ admitted' = [admitted EXCEPT ![m.src] = Append(@, m.seqid)]
                  /\ UNCHANGED <<guards, last>>
             ELSE /\ tasks' = [tasks EXCEPT ![t] =
                       Task("client_thread", "recv", <<>>, <<>>, <<>>)]
                  /\ guards' = drop(guards, t)
                  /\ last' = Call("client_thread", <<m>>, <<r.reply, <<>>>>)
                  /\ UNCHANGED admitted
          /\ UNCHANGED registered
     ELSE \E user_id \in Uuids :
            LET r == query_arm(clients, routes, m.src, m.content, user_id) IN
            /\ clients' = r.clients
            /\ registered' = IF m.content[1] = "Register"
                             THEN Insert(registered, user_id, m.content[2])
                             ELSE registered
            /\ tasks' = [tasks EXCEPT ![t] =
                 Task("client_thread", "recv", <<>>, <<>>, <<>>)]
            /\ guards' = drop(guards, t)
            /\ last' = Call("client_thread", <<m>>, <<Ok, <<r.repl>>>>)
            /\ UNCHANGED <<before, admitted>>
  /\ UNCHANGED <<routes, polled, nops, announced, wire, sent>>

\* server_thread: a datagram is received and decoded; a ServerMessage goes on
\* to srv.write().await of the match on handle_server_message
ServerRecv(t) ==
  /\ AtRecv(t, "server_thread")
  /\ \E buf \in ServerDatagrams :
       tasks' = [tasks EXCEPT ![t] =
         IF decode_server(buf)[1] = "Ok"
         THEN Task("server_thread", "await", <<decode_server(buf)[2]>>, <<>>,
                   <<Write("srv")>>)
         ELSE Task("server_thread", "recv", <<>>, <<>>, <<>>)]
  /\ UNCHANGED <<clients, routes, last, before, admitted, polled, nops,
                 announced, registered, guards, wire, sent>>

\* server_thread under its guard of srv: handle_server_message, whose reply,
\* Outgoing or EmptyRoute, goes to an arm that is todo!(): the task panics,
\* and its guard is dropped as the panic unwinds
ServerMatch(t) ==
  /\ TaskOp(t) = "server_thread"
  /\ TaskPc(t) = "run"
  /\ LET msg == TaskArg(t)[1]
         r == IF msg[1] = "announce"
              THEN handle_announce(clients, routes, msg[2], msg[3])
              ELSE [routes |-> routes] @@ handle_message(clients, routes, msg[2])
     IN /\ clients' = r.clients
        /\ routes' = r.routes
        /\ announced' = IF msg[1] = "announce" /\ msg[2] # <<>>
                        THEN announced \cup {msg[2]}
                        ELSE announced
        /\ tasks' = [tasks EXCEPT ![t] =
             Task("server_thread", "panicked", <<msg>>, <<r.reply>>, <<>>)]
        /\ guards' = drop(guards, t)
  /\ UNCHANGED <<last, before, admitted, polled, nops, registered, wire, sent>>

\* Listeners: the two tasks of main.rs over one Server.
ListenNext ==
  \/ ClientRecv(1)
  \/ ClientMatch(1)
  \/ ServerRecv(2)
  \/ ServerMatch(2)
  \/ \E t \in {1, 2} : Await(t)

ListenSpec == Init /\ [][ListenNext]_vars

\* ----------------------------------------------------------- listener claims
\* task t is in the arm of an admitted query, or about to enter it
InArm(t) == TaskOp(t) = "client_thread" /\ TaskOut(t) = <<Ok>>

====
